---------------------------- MODULE Spec2Model ----------------------------
(***************************************************************************)
(* Blind-spot detection for a two-wheeler side camera (src/main.py):       *)
(* VehicleTracker (nearest-neighbour tracks), AdaptiveBlindSpotZone        *)
(* (threat classifier) and AdvancedBlindSpotDetection.process_side_view    *)
(* (per-frame aggregation and alert cooldown).                             *)
(*                                                                         *)
(* Units.  Pixels are integers.  The tracker computes bbox centers with    *)
(* true division (x + w/2), so centers and velocities are kept doubled     *)
(* (in half pixels): Center2, velocity.  The classifier computes centers   *)
(* with floor division (x + w // 2) and is kept in pixels.  Time is kept   *)
(* in ticks, TicksPerUnit ticks to one time unit of time.time(); the       *)
(* program's time constants are kept in tenths of a unit.                  *)
(***************************************************************************)
EXTENDS Integers, Sequences, FiniteSets, TLC

VARIABLES
    zone,               \* the session's AdaptiveBlindSpotZone (immutable)
    trackers,           \* self.trackers: side -> VehicleTracker state
    last_warning_time,  \* self.last_warning_time: side -> timestamp
    now,                \* the clock read by time.time()
    frame_count,        \* process_single_camera's frame_count
    status,             \* where process_single_camera is
    frame,              \* what the last process_side_view call did
    probe               \* the direct classifier calls: input and results

vars == <<zone, trackers, last_warning_time, now, frame_count, status, frame, probe>>

Sides == {"left", "right"}

--------------------------------------------------------------------------
(* Bounds of the model *)

\* ticks per time unit of time.time()
TicksPerUnit == 2
\* frames processed in one session
MaxFrames == 3
\* frames processed in one session of the long-history specification
MaxLongFrames == 12
\* the clock's value at the first frame, in ticks (time.time() is far from 0)
StartTime == 4

\* time between two frames, in ticks: for TicksPerUnit = 2, half the
\* disappearance timeout and the timeout itself; two and three frames then
\* reach the cooldown exactly (1 + 2) and exceed it (2 + 2)
Dts == {1, 2}

--------------------------------------------------------------------------
(* Program constants *)

\* VehicleTracker.__init__: max_history=10
max_history == 10
\* self.max_disappeared = 1.0, in tenths of a time unit
max_disappeared == 10
\* the literal 100 of "dist < 100": max matching distance in pixels
max_match_dist == 100
\* self.warning_cooldown = 1.5, in tenths of a time unit
warning_cooldown == 15

\* a - b < c, a and b in ticks, c in tenths of a unit
ElapsedLt(a, b, c) == 10 * (a - b) < c * TicksPerUnit
\* a - b > c, a and b in ticks, c in tenths of a unit
ElapsedGt(a, b, c) == 10 * (a - b) > c * TicksPerUnit

--------------------------------------------------------------------------
(* VehicleTracker *)

\* a bbox is <<x, y, w, h>>; its center (x + w/2, y + h/2), doubled
Center2(bbox) == <<2 * bbox[1] + bbox[3], 2 * bbox[2] + bbox[4]>>

\* np.linalg.norm(a - b) squared, for doubled centers: 4 * dist^2
Dist2Sq(a, b) == (a[1] - b[1]) * (a[1] - b[1]) + (a[2] - b[2]) * (a[2] - b[2])

\* mutant: no maximum matching distance
AnyDistance(dsq) == TRUE

\* dist < 100
WithinRadius(dsq) == dsq < (2 * max_match_dist) * (2 * max_match_dist)

\* VehicleTracker(): no tracks, next_id 0.  tracks is the dict in insertion
\* order, each entry the key (id) and the track's fields.
NewTracker == [tracks |-> <<>>, next_id |-> 0]

TrackIds(tracks) == {tracks[i].id : i \in 1..Len(tracks)}

TrackOf(tracks, tid) == tracks[CHOOSE i \in 1..Len(tracks) : tracks[i].id = tid]

\* self.tracks[key] = value: in place when the key exists, else at the end
DictSet(tracks, entry) ==
    IF entry.id \in TrackIds(tracks)
    THEN [i \in 1..Len(tracks) |->
              IF tracks[i].id = entry.id THEN entry ELSE tracks[i]]
    ELSE Append(tracks, entry)

\* del self.tracks[key]
DictDel(tracks, tid) == SelectSeq(tracks, LAMBDA e : e.id # tid)

\* mutant: a full deque drops its newest entry instead of its oldest
DequeAppendDropNewest(positions, bbox) ==
    IF Len(positions) >= max_history
    THEN Append(SubSeq(positions, 1, Len(positions) - 1), bbox)
    ELSE Append(positions, bbox)

\* deque.append with maxlen: drops the leftmost entry when full
DequeAppend(positions, bbox) ==
    IF Len(positions) >= max_history
    THEN Append(Tail(positions), bbox)
    ELSE Append(positions, bbox)

\* mutant: the increment forgotten
NextIdNotIncremented(next_id) == next_id

\* self.next_id += 1
NextIdAfterCreate(next_id) == next_id + 1

\* _create_track: st is [tracks, next_id, calls, matched] (the tracker, the
\* calls made so far, the local set matched); i is the detection's index
CreateTrack(st, detections, i, current_time) ==
    [st EXCEPT
       !.tracks  = DictSet(@, [id         |-> st.next_id,
                               positions  |-> <<detections[i].bbox>>,
                               last_seen  |-> current_time,
                               class      |-> detections[i].class_id,
                               confidence |-> detections[i].confidence]),
       !.next_id = NextIdAfterCreate(@),
       !.calls   = Append(@, [op |-> "create", tid |-> st.next_id, det |-> i])]

\* the track's entry after _update_track: the bbox appended, last_seen and
\* confidence refreshed
UpdatedEntry(entry, detection, current_time) ==
    [entry EXCEPT !.positions  = DequeAppend(@, detection.bbox),
                  !.last_seen  = current_time,
                  !.confidence = detection.confidence]

\* _update_track
UpdateTrack(st, tid, detections, i, current_time) ==
    [st EXCEPT
       !.tracks = [k \in 1..Len(st.tracks) |->
                     IF st.tracks[k].id = tid
                     THEN UpdatedEntry(st.tracks[k], detections[i], current_time)
                     ELSE st.tracks[k]],
       !.calls  = Append(@, [op |-> "update", tid |-> tid, det |-> i])]

\* mutant: matched detections are not skipped
NeverSkipped(i, matched) == FALSE

\* "if i in matched: continue"
Skipped(i, matched) == i \in matched

\* mutant: the first detection within the radius is taken, not the closest
CloserFirstFit(dsq, min_dsq) == min_dsq = -1 /\ WithinRadius(dsq)

\* "dist < min_dist and dist < 100", min_dsq being -1 for float('inf')
Closer(dsq, min_dsq) == (min_dsq = -1 \/ dsq < min_dsq) /\ WithinRadius(dsq)

\* the inner loop over enumerate(detections): the index of the closest
\* detection not yet matched and within the radius, 0 for None
RECURSIVE BestMatch(_, _, _, _, _, _)
BestMatch(last_center, detections, matched, i, min_dsq, best) ==
    IF i > Len(detections) THEN best
    ELSE IF Skipped(i, matched)
         THEN BestMatch(last_center, detections, matched, i + 1, min_dsq, best)
         ELSE IF Closer(Dist2Sq(last_center, Center2(detections[i].bbox)), min_dsq)
              THEN BestMatch(last_center, detections, matched, i + 1,
                             Dist2Sq(last_center, Center2(detections[i].bbox)), i)
              ELSE BestMatch(last_center, detections, matched, i + 1, min_dsq, best)

\* mutant: the comparison of the empty-frame branch (stale at the timeout)
IsStaleAtTimeout(track, current_time) ==
    ~ElapsedLt(current_time, track.last_seen, max_disappeared)

\* "elif current_time - track['last_seen'] > self.max_disappeared"
IsStale(track, current_time) ==
    ElapsedGt(current_time, track.last_seen, max_disappeared)

\* the end of one pass of the loop over the tracks, best_match found
MatchStep(st, track, best_match, detections, current_time) ==
    IF best_match # 0
    THEN [UpdateTrack(st, track.id, detections, best_match, current_time)
            EXCEPT !.matched = @ \cup {best_match}]
    ELSE IF IsStale(track, current_time)
         THEN [st EXCEPT !.tracks = DictDel(@, track.id)]
         ELSE st

\* the loop over list(self.tracks.items()): snapshot is the list, k the
\* position in it
RECURSIVE MatchLoop(_, _, _, _, _)
MatchLoop(snapshot, k, st, detections, current_time) ==
    IF k > Len(snapshot) THEN st
    ELSE IF Len(snapshot[k].positions) = 0
         THEN MatchLoop(snapshot, k + 1, st, detections, current_time)
         ELSE MatchLoop(snapshot, k + 1,
                  MatchStep(st, snapshot[k],
                      BestMatch(Center2(snapshot[k].positions[Len(snapshot[k].positions)]),
                                detections, st.matched, 1, -1, 0),
                      detections, current_time),
                  detections, current_time)

\* the loops "for det in detections: create" (tracks empty: matched is
\* empty) and "for i, det in enumerate(detections): if i not in matched"
RECURSIVE CreateLoop(_, _, _, _)
CreateLoop(st, detections, i, current_time) ==
    IF i > Len(detections) THEN st
    ELSE IF i \in st.matched
         THEN CreateLoop(st, detections, i + 1, current_time)
         ELSE CreateLoop(CreateTrack(st, detections, i, current_time),
                         detections, i + 1, current_time)

\* mutant: the comparison of the non-empty branch (delete when > timeout)
KeepNotStale(tracks, current_time) ==
    SelectSeq(tracks, LAMBDA e : ~ElapsedGt(current_time, e.last_seen, max_disappeared))

\* the empty-frame branch: the tracks kept
KeepFresh(tracks, current_time) ==
    SelectSeq(tracks, LAMBDA e : ElapsedLt(current_time, e.last_seen, max_disappeared))

\* mutant: the velocity with its sign reversed (previous minus newest)
TrackedVehicleReversed(track) ==
    LET n == Len(track.positions)
    IN  IF n < 2
        THEN [id |-> track.id, bbox |-> track.positions[n], class |-> track.class,
              velocity |-> <<0, 0>>, history_length |-> n]
        ELSE LET curr == Center2(track.positions[n])
                 prev == Center2(track.positions[n - 1])
             IN  [id |-> track.id, bbox |-> track.positions[n], class |-> track.class,
                  velocity |-> <<prev[1] - curr[1], prev[2] - curr[2]>>,
                  history_length |-> n,
                  positions |-> track.positions]

\* mutant: the velocity taken from the oldest history entry to the newest
TrackedVehicleFromOldest(track) ==
    LET n == Len(track.positions)
    IN  IF n < 2
        THEN [id |-> track.id, bbox |-> track.positions[n], class |-> track.class,
              velocity |-> <<0, 0>>, history_length |-> n]
        ELSE LET curr == Center2(track.positions[n])
                 prev == Center2(track.positions[1])
             IN  [id |-> track.id, bbox |-> track.positions[n], class |-> track.class,
                  velocity |-> <<curr[1] - prev[1], curr[2] - prev[2]>>,
                  history_length |-> n,
                  positions |-> track.positions]

\* _get_tracked_vehicles: one entry per track, in dict order; velocity doubled
TrackedVehicle(track) ==
    LET n == Len(track.positions)
    IN  IF n < 2
        THEN [id |-> track.id, bbox |-> track.positions[n], class |-> track.class,
              velocity |-> <<0, 0>>, history_length |-> n]
        ELSE LET curr == Center2(track.positions[n])
                 prev == Center2(track.positions[n - 1])
             IN  [id |-> track.id, bbox |-> track.positions[n], class |-> track.class,
                  velocity |-> <<curr[1] - prev[1], curr[2] - prev[2]>>,
                  history_length |-> n,
                  positions |-> track.positions]

GetTrackedVehicles(tracks) == [i \in 1..Len(tracks) |-> TrackedVehicle(tracks[i])]

\* the non-empty branch of update up to the return
Associate(tracker, detections, current_time) ==
    CreateLoop(IF Len(tracker.tracks) = 0
               THEN [tracks |-> tracker.tracks, next_id |-> tracker.next_id,
                     calls |-> <<>>, matched |-> {}]
               ELSE MatchLoop(tracker.tracks, 1,
                              [tracks |-> tracker.tracks, next_id |-> tracker.next_id,
                               calls |-> <<>>, matched |-> {}],
                              detections, current_time),
               detections, 1, current_time)

\* mutant: only the tracks this call appended to or created are returned
ReturnedTouched(detections, st) ==
    IF Len(detections) = 0 THEN <<>>
    ELSE GetTrackedVehicles(
             SelectSeq(st.tracks,
                       LAMBDA e : \E k \in 1..Len(st.calls) : st.calls[k].tid = e.id))

\* what update returns
Returned(detections, st) ==
    IF Len(detections) = 0 THEN <<>> ELSE GetTrackedVehicles(st.tracks)

\* update: the tracker after the call (tracks, next_id), the calls made to
\* _update_track and _create_track, the local set matched
Update(tracker, detections, current_time) ==
    IF Len(detections) = 0
    THEN [tracks  |-> KeepFresh(tracker.tracks, current_time),
          next_id |-> tracker.next_id,
          calls   |-> <<>>,
          matched |-> {}]
    ELSE Associate(tracker, detections, current_time)

--------------------------------------------------------------------------
(* AdaptiveBlindSpotZone *)

\* int(pct/100 * n).  The float product agrees with this integer form for
\* the frame sizes of FrameSizes (it does not for every width, e.g. 90).
IntPct(pct, n) == (pct * n) \div 100

\* <<width, height>> of the video, read once by process_single_camera
FrameSizes == {<<800, 600>>, <<640, 480>>}

\* __init__
AdaptiveBlindSpotZone(frame_width, frame_height, side) ==
    [width  |-> frame_width,
     height |-> frame_height,
     side   |-> side,
     base_critical |-> IF side = "left"
                       THEN <<0, IntPct(35, frame_width)>>
                       ELSE <<IntPct(65, frame_width), frame_width>>,
     base_warning  |-> <<IntPct(35, frame_width), IntPct(65, frame_width)>>,
     self_zone     |-> IF side = "left"
                       THEN <<IntPct(70, frame_width), IntPct(60, frame_height),
                              frame_width, frame_height>>
                       ELSE <<0, IntPct(60, frame_height),
                              IntPct(30, frame_width), frame_height>>,
     lane_center   |-> frame_width \div 2,
     lane_width    |-> IntPct(30, frame_width)]

\* x + w // 2 and y + h // 2
CenterX(bbox) == bbox[1] + (bbox[3] \div 2)
CenterY(bbox) == bbox[2] + (bbox[4] \div 2)

\* mutant: the bbox's top-left corner tested instead of its center
IsInSelfZoneCorner(z, bbox) ==
    /\ z.self_zone[1] <= bbox[1] /\ bbox[1] <= z.self_zone[3]
    /\ z.self_zone[2] <= bbox[2] /\ bbox[2] <= z.self_zone[4]

\* _is_in_self_zone
IsInSelfZone(z, bbox) ==
    /\ z.self_zone[1] <= CenterX(bbox) /\ CenterX(bbox) <= z.self_zone[3]
    /\ z.self_zone[2] <= CenterY(bbox) /\ CenterY(bbox) <= z.self_zone[4]

\* center_y < 0.15 * self.height or center_y > 0.85 * self.height
OutOfROI(z, bbox) ==
    \/ 100 * CenterY(bbox) < 15 * z.height
    \/ 100 * CenterY(bbox) > 85 * z.height

\* _analyze_lane_position; velocity is doubled (vx < -5 is velocity[1] < -10)
AnalyzeLanePosition(z, center_x, velocity) ==
    IF z.side = "left"
    THEN IF 10 * center_x > 7 * z.width /\ velocity[1] < -10
         THEN "opposite_lane" ELSE "same_lane"
    ELSE IF 10 * center_x < 3 * z.width /\ velocity[1] > 10
         THEN "opposite_lane" ELSE "same_lane"

\* mutant: the thresholds the comments call the original ones (0.4, 0.25)
AnalyzeDistanceOriginal(z, bbox_height) ==
    IF 100 * bbox_height > 40 * z.height THEN "critical"
    ELSE IF 100 * bbox_height > 25 * z.height THEN "warning"
    ELSE "safe"

\* _analyze_distance: height_ratio > 0.45, > 0.3
AnalyzeDistance(z, bbox_height) ==
    IF 100 * bbox_height > 45 * z.height THEN "critical"
    ELSE IF 10 * bbox_height > 3 * z.height THEN "warning"
    ELSE "safe"

\* _analyze_motion; velocity is doubled (vx < -3 is velocity[1] < -6)
AnalyzeMotion(z, bbox, velocity) ==
    LET center_x == CenterX(bbox)
        vx2 == velocity[1]
    IN  IF z.side = "left"
        THEN IF vx2 < -6
             THEN IF center_x < z.base_critical[2]
                  THEN <<"critical", "Fast approach in blind spot">>
                  ELSE IF center_x < z.base_warning[2]
                       THEN <<"warning", "Approaching blind spot">>
                       ELSE <<"safe", "No immediate threat">>
             ELSE IF vx2 > 6
                  THEN <<"safe", "Moving away">>
                  ELSE IF center_x < z.base_critical[2]
                       THEN <<"critical", "Parallel in blind spot">>
                       ELSE IF center_x < z.base_warning[2]
                            THEN <<"warning", "Parallel nearby">>
                            ELSE <<"safe", "No immediate threat">>
        ELSE IF vx2 > 6
             THEN IF center_x > z.base_critical[1]
                  THEN <<"critical", "Fast approach in blind spot">>
                  ELSE IF center_x > z.base_warning[1]
                       THEN <<"warning", "Approaching blind spot">>
                       ELSE <<"safe", "No immediate threat">>
             ELSE IF vx2 < -6
                  THEN <<"safe", "Moving away">>
                  ELSE IF center_x > z.base_critical[1]
                       THEN <<"critical", "Parallel in blind spot">>
                       ELSE IF center_x > z.base_warning[1]
                            THEN <<"warning", "Parallel nearby">>
                            ELSE <<"safe", "No immediate threat">>

\* mutant: the distance threat alone decides
CombineDistanceOnly(distance_threat, motion) ==
    IF distance_threat = "safe" THEN <<"safe", "Distant vehicle">>
    ELSE <<distance_threat, motion[2]>>

\* mutant: the motion threat alone decides once the distance is not safe
CombineMotionOnly(distance_threat, motion) ==
    IF distance_threat = "safe" THEN <<"safe", "Distant vehicle">>
    ELSE motion

\* step 6 of classify_threat: the distance and motion threats combined
CombineThreats(distance_threat, motion) ==
    LET motion_threat == motion[1]
        reason == motion[2]
    IN  IF distance_threat = "safe" THEN <<"safe", "Distant vehicle">>
        ELSE IF motion_threat = "none" THEN <<"none", reason>>
        ELSE IF motion_threat = "critical" \/ distance_threat = "critical"
             THEN <<"critical",
                    IF distance_threat = "critical" THEN "Very close" ELSE reason>>
        ELSE IF motion_threat = "warning" \/ distance_threat = "warning"
             THEN <<"warning",
                    IF distance_threat = "warning" /\ motion_threat = "safe"
                    THEN "Moderately close" ELSE reason>>
        ELSE <<"safe", "No immediate threat">>

\* "if self._is_in_self_zone(bbox): return 'none'", the first check
SelfZoneFilter(z, bbox) == IsInSelfZone(z, bbox)

\* classify_threat: <<level, reason>>
ClassifyThreat(z, tracked_vehicle) ==
    LET bbox == tracked_vehicle.bbox
        velocity == tracked_vehicle.velocity
    IN  IF SelfZoneFilter(z, bbox) THEN <<"none", "In self-vehicle zone">>
        ELSE IF OutOfROI(z, bbox) THEN <<"none", "Out of ROI (vertical)">>
        ELSE IF AnalyzeLanePosition(z, CenterX(bbox), velocity) = "opposite_lane"
             THEN <<"none", "Opposite lane traffic">>
        ELSE CombineThreats(AnalyzeDistance(z, bbox[4]),
                            AnalyzeMotion(z, bbox, velocity))

--------------------------------------------------------------------------
(* AdvancedBlindSpotDetection.process_side_view *)

\* the loop over tracked_vehicles: the entries appended to threat_vehicles
RECURSIVE ThreatVehicles(_, _, _)
ThreatVehicles(z, tracked_vehicles, i) ==
    IF i > Len(tracked_vehicles) THEN <<>>
    ELSE LET c == ClassifyThreat(z, tracked_vehicles[i])
             rest == ThreatVehicles(z, tracked_vehicles, i + 1)
         IN  IF c[1] = "none" THEN rest
             ELSE <<[vehicle |-> tracked_vehicles[i],
                     threat  |-> c[1],
                     reason  |-> c[2]]>> \o rest

\* mutant: no cooldown
NoCooldown(current_time, last) == TRUE

\* (current_time - self.last_warning_time[side]) > self.warning_cooldown
CooldownElapsed(current_time, last) == ElapsedGt(current_time, last, warning_cooldown)

\* mutant: the elif branch for warnings missing
TriggerCriticalOnly(critical_detected, warning_detected, current_time, last) ==
    IF critical_detected /\ ElapsedGt(current_time, last, warning_cooldown)
    THEN "CRITICAL" ELSE "NONE"

\* mutant: the warning branch tested before the critical one
TriggerWarningFirst(critical_detected, warning_detected, current_time, last) ==
    IF warning_detected /\ CooldownElapsed(current_time, last) THEN "WARNING"
    ELSE IF critical_detected /\ CooldownElapsed(current_time, last) THEN "CRITICAL"
    ELSE "NONE"

\* "Trigger warnings": the level trigger_warning is called with, or "NONE"
TriggerLevel(critical_detected, warning_detected, current_time, last) ==
    IF critical_detected /\ CooldownElapsed(current_time, last) THEN "CRITICAL"
    ELSE IF warning_detected /\ CooldownElapsed(current_time, last) THEN "WARNING"
    ELSE "NONE"

\* no process_side_view call has been made yet
NoFrame ==
    [side |-> "", detections |-> <<>>, current_time |-> 0, calls |-> <<>>,
     tracked_vehicles |-> <<>>, threat_vehicles |-> <<>>,
     critical_detected |-> FALSE, warning_detected |-> FALSE, alert |-> "NONE"]

\* no classify_threat or _analyze_motion call has been made directly
NoProbe == [vehicle |-> <<>>, level |-> "", reason |-> "", motion |-> <<>>]

\* critical_detected (level "critical") and warning_detected ("warning")
\* after the loop over tracked_vehicles
Detected(threat_vehicles, level) ==
    \E i \in 1..Len(threat_vehicles) : threat_vehicles[i].threat = level

\* what process_side_view did: its inputs, the calls update made, the list
\* update returned, threat_vehicles, the two flags, and the alert fired
FrameResult(z, u, ret, threat_vehicles, detections, current_time, last) ==
    [side |-> z.side, detections |-> detections,
     current_time |-> current_time, calls |-> u.calls,
     tracked_vehicles |-> ret, threat_vehicles |-> threat_vehicles,
     critical_detected |-> Detected(threat_vehicles, "critical"),
     warning_detected |-> Detected(threat_vehicles, "warning"),
     alert |-> TriggerLevel(Detected(threat_vehicles, "critical"),
                            Detected(threat_vehicles, "warning"),
                            current_time, last)]

\* process_side_view(frame, side, adaptive_zone), the detector returning
\* detections and time.time() returning current_time
ProcessSideView(detections, current_time) ==
    \E u \in {Update(trackers[zone.side], detections, current_time)} :
    \E ret \in {Returned(detections, u)} :
    \E threat_vehicles \in {ThreatVehicles(zone, ret, 1)} :
    \E r \in {FrameResult(zone, u, ret, threat_vehicles, detections,
                          current_time, last_warning_time[zone.side])} :
        /\ trackers' = [trackers EXCEPT
                          ![zone.side] = [tracks |-> u.tracks, next_id |-> u.next_id]]
        /\ last_warning_time' =
               IF r.alert # "NONE"
               THEN [last_warning_time EXCEPT ![zone.side] = current_time]
               ELSE last_warning_time
        /\ frame' = r

--------------------------------------------------------------------------
(* Inputs *)

Det(bbox, confidence, class_id) ==
    [bbox |-> bbox, confidence |-> confidence, class_id |-> class_id]

\* the bbox mirrored about the vertical axis of a frame of the given width
Mirror(bbox, width) == <<width - bbox[1] - bbox[3], bbox[2], bbox[3], bbox[4]>>

\* the bbox as the side's camera sees it: as given on the left, mirrored on
\* the right
Seen(z, bbox) == IF z.side = "left" THEN bbox ELSE Mirror(bbox, z.width)

\* what detect_vehicles can return for one vehicle (confidence in percent,
\* above 50; class_id one of self.vehicle_classes): the spec scenario's two
\* bboxes, 30 pixels apart in the critical band, and one in the warning
\* band, more than 100 pixels from both
DetectionPool(z) ==
    {Det(Seen(z, <<100, 300, 60, 200>>), 90, 2),
     Det(Seen(z, <<70, 300, 60, 200>>), 60, 3),
     Det(Seen(z, <<400, 300, 60, 200>>), 80, 2)}

\* detections per frame
MaxDets == 2

SeqsUpTo(S, n) == UNION {[1..k -> S] : k \in 0..n}

\* what detect_vehicles can return for one frame: NMS leaves no bbox twice
Frames(z) ==
    {f \in SeqsUpTo(DetectionPool(z), MaxDets) :
        \A i, j \in 1..Len(f) : f[i] = f[j] => i = j}

\* the frames of the long-history specification: one vehicle, two places
LongPool(z) ==
    {Det(Seen(z, <<100, 300, 60, 200>>), 90, 2),
     Det(Seen(z, <<70, 300, 60, 200>>), 60, 3)}
LongFrames(z) == SeqsUpTo(LongPool(z), 1)
LongDts == {1}

\* the video's <<width, height>> in the frame-by-frame specifications
VideoSizes == {<<800, 600>>}

--------------------------------------------------------------------------
(* process_single_camera *)

\* AdvancedBlindSpotDetection.__init__, then process_single_camera up to its loop
Init ==
    /\ zone \in {AdaptiveBlindSpotZone(wh[1], wh[2], s) : wh \in VideoSizes, s \in Sides}
    /\ trackers = [s \in Sides |-> NewTracker]
    /\ last_warning_time = [s \in Sides |-> 0]
    /\ now = StartTime
    /\ frame_count = 0
    /\ status = "running"
    /\ frame = NoFrame
    /\ probe = NoProbe

\* one pass of the loop: cap.read() gives a frame, the detector returns
\* detections, the frame is processed
ProcessFrame(detections, dt) ==
    /\ status = "running"
    /\ now' = now + dt
    /\ ProcessSideView(detections, now + dt)
    /\ frame_count' = frame_count + 1
    /\ UNCHANGED <<zone, status, probe>>

\* cap.read() returns ret = False, or the user presses q: the loop ends
EndOfStream ==
    /\ status = "running"
    /\ status' = "ended"
    /\ UNCHANGED <<zone, trackers, last_warning_time, now, frame_count, frame, probe>>

\* detect_vehicles raises: nothing in process_side_view or the loop catches
\* it, the finally clause releases the video and the exception leaves
\* process_single_camera
DetectorRaises ==
    /\ status = "running"
    /\ status' = "failed"
    /\ UNCHANGED <<zone, trackers, last_warning_time, now, frame_count, frame, probe>>

Next ==
    \/ \E detections \in Frames(zone), dt \in Dts :
          frame_count < MaxFrames /\ ProcessFrame(detections, dt)
    \/ frame_count < MaxFrames /\ EndOfStream
    \/ frame_count < MaxFrames /\ DetectorRaises

Spec == Init /\ [][Next]_vars

\* long sessions with one vehicle, to fill a track's history
NextLong ==
    \/ \E detections \in LongFrames(zone), dt \in LongDts :
          frame_count < MaxLongFrames /\ ProcessFrame(detections, dt)
    \/ frame_count < MaxLongFrames /\ EndOfStream

SpecLong == Init /\ [][NextLong]_vars

--------------------------------------------------------------------------
(* classify_threat called directly, on synthetic tracked vehicles *)

\* pixel values at and next to v
Around(v) == {v - 1, v, v + 1}

\* horizontal centers: the frame's edges and every zone boundary
ProbeCXs(z) ==
    {0, z.width} \cup Around(IntPct(30, z.width)) \cup Around(IntPct(35, z.width))
                 \cup Around(IntPct(65, z.width)) \cup Around(IntPct(70, z.width))

\* vertical centers: the region of interest's and the self zone's edges
ProbeCYs(z) ==
    {z.height} \cup Around(IntPct(15, z.height)) \cup Around(IntPct(60, z.height))
               \cup Around(IntPct(85, z.height))

\* bbox heights: small, and at the two distance thresholds
ProbeHs(z) ==
    {IntPct(12, z.height), IntPct(30, z.height), IntPct(30, z.height) + 1,
     IntPct(45, z.height), IntPct(45, z.height) + 1, IntPct(80, z.height)}

\* bbox widths: even and odd
ProbeWs == {60, 61}

ProbeBBoxes(z) ==
    {<<cx - (w \div 2), cy - (h \div 2), w, h>> :
        cx \in ProbeCXs(z), cy \in ProbeCYs(z), w \in ProbeWs, h \in ProbeHs(z)}

\* velocities, doubled: at and beyond the deadband (3) and the lane
\* threshold (5), both directions
ProbeVelocities ==
    {<<vx2, vy2>> : vx2 \in {-60, -11, -10, -7, -6, 0, 6, 7, 10, 11, 60}, vy2 \in {0, 8}}

\* the tracked vehicle of the direct calls, before the calls: level and
\* reason are classify_threat's result, motion is _analyze_motion's
ProbeVehicle(bbox, velocity) ==
    [vehicle |-> [id |-> 0, bbox |-> bbox, class |-> 2, velocity |-> velocity,
                  history_length |-> 2],
     level |-> "", reason |-> "", motion |-> <<>>]

InitClassify ==
    /\ zone \in {AdaptiveBlindSpotZone(wh[1], wh[2], s) : wh \in FrameSizes, s \in Sides}
    /\ trackers = [s \in Sides |-> NewTracker]
    /\ last_warning_time = [s \in Sides |-> 0]
    /\ now = StartTime
    /\ frame_count = 0
    /\ status = "running"
    /\ frame = NoFrame
    /\ probe \in {ProbeVehicle(bbox, velocity) :
                    bbox \in ProbeBBoxes(zone), velocity \in ProbeVelocities}

\* adaptive_zone.classify_threat(tracked_vehicle, frame)
Classify ==
    /\ probe.level = ""
    /\ \E c \in {ClassifyThreat(zone, probe.vehicle)} :
          probe' = [probe EXCEPT !.level = c[1], !.reason = c[2]]
    /\ UNCHANGED <<zone, trackers, last_warning_time, now, frame_count, status, frame>>

\* adaptive_zone._analyze_motion(bbox, velocity)
AnalyzeMotionCall ==
    /\ probe.motion = <<>>
    /\ probe' = [probe EXCEPT !.motion = AnalyzeMotion(zone, probe.vehicle.bbox,
                                                       probe.vehicle.velocity)]
    /\ UNCHANGED <<zone, trackers, last_warning_time, now, frame_count, status, frame>>

NextClassify == Classify \/ AnalyzeMotionCall

SpecClassify == InitClassify /\ [][NextClassify]_vars

\* a classify_threat call has been made
Probed == probe.level # ""

\* the bbox center (x + w/2, y + h/2) lies in the rectangle <<x1, y1, x2, y2>>
CenterInRect(bbox, rect) ==
    /\ 2 * rect[1] <= Center2(bbox)[1] /\ Center2(bbox)[1] <= 2 * rect[3]
    /\ 2 * rect[2] <= Center2(bbox)[2] /\ Center2(bbox)[2] <= 2 * rect[4]

\* C8: a tracked vehicle whose bbox center lies inside the side's
\* self-exclusion rectangle is classified none, whatever its velocity, bbox
\* height and horizontal position.
C8_SelfZoneYieldsNone ==
    (Probed /\ CenterInRect(probe.vehicle.bbox, zone.self_zone))
        => probe.level = "none" /\ probe.reason = "In self-vehicle zone"

\* C8 witness: a bbox with height ratio above 0.45 and a fast approaching
\* velocity, center inside the self zone, classified none.
C8_Witness ==
    /\ Probed
    /\ CenterInRect(probe.vehicle.bbox, zone.self_zone)
    /\ 100 * probe.vehicle.bbox[4] > 45 * zone.height
    /\ IF zone.side = "left" THEN probe.vehicle.velocity[1] < -6
                             ELSE probe.vehicle.velocity[1] > 6
    /\ probe.level = "none"

\* the vehicle passes the self-exclusion, region-of-interest and
\* opposite-lane filters
PassesFilters(z, v) ==
    /\ ~IsInSelfZone(z, v.bbox)
    /\ ~OutOfROI(z, v.bbox)
    /\ AnalyzeLanePosition(z, CenterX(v.bbox), v.velocity) # "opposite_lane"

\* C9: a tracked vehicle that passes the three filters and whose bbox height
\* is at most 0.30 of the frame height is classified safe, for every
\* velocity and horizontal position.
C9_DistantIsSafe ==
    (Probed /\ PassesFilters(zone, probe.vehicle)
            /\ 10 * probe.vehicle.bbox[4] <= 3 * zone.height)
        => probe.level = "safe"

\* C9 witness: height ratio exactly 0.30, approaching, center inside the
\* critical band, classified safe.
C9_Witness ==
    /\ Probed
    /\ PassesFilters(zone, probe.vehicle)
    /\ 10 * probe.vehicle.bbox[4] = 3 * zone.height
    /\ zone.side = "left"
    /\ probe.vehicle.velocity[1] < -6
    /\ CenterX(probe.vehicle.bbox) < zone.base_critical[2]
    /\ AnalyzeMotion(zone, probe.vehicle.bbox, probe.vehicle.velocity)[1] = "critical"
    /\ probe.level = "safe"

--------------------------------------------------------------------------
(* Claims about the tracker, frame by frame *)

\* the session's tracker
Tracker == trackers[zone.side]

\* this step is one process_side_view call
FrameStep == frame_count' = frame_count + 1

\* the identifiers the last update call created tracks with, in call order
CreatedIds(calls) ==
    [k \in 1..Len(SelectSeq(calls, LAMBDA c : c.op = "create")) |->
        SelectSeq(calls, LAMBDA c : c.op = "create")[k].tid]

\* C1: every track created receives an identifier strictly greater than
\* every identifier assigned before it, so no identifier is assigned twice,
\* also after a deletion: in each update call the created identifiers start
\* at the counter's old value (above every identifier assigned so far),
\* increase strictly, stay below the counter's new value, and name no track
\* that was live; the counter never decreases and bounds every live id.
C1_IdsNeverReused ==
    /\ [](\A i \in 1..Len(Tracker.tracks) :
             /\ Tracker.tracks[i].id < Tracker.next_id
             /\ \A j \in 1..Len(Tracker.tracks) :
                   Tracker.tracks[i].id = Tracker.tracks[j].id => i = j)
    /\ [][FrameStep =>
            /\ Tracker'.next_id >= Tracker.next_id
            /\ \A k \in 1..Len(CreatedIds(frame'.calls)) :
                  /\ CreatedIds(frame'.calls)[k] >= Tracker.next_id
                  /\ CreatedIds(frame'.calls)[k] < Tracker'.next_id
                  /\ CreatedIds(frame'.calls)[k] \notin TrackIds(Tracker.tracks)
                  /\ \A m \in 1..(k - 1) :
                        CreatedIds(frame'.calls)[m] < CreatedIds(frame'.calls)[k]
            /\ TrackIds(Tracker'.tracks) \subseteq
                  TrackIds(Tracker.tracks) \cup
                  {CreatedIds(frame'.calls)[k] : k \in 1..Len(CreatedIds(frame'.calls))}
         ]_vars

\* C1 witness: the third frame creates track 1 from one detection while
\* track 0, created and deleted before, is gone: the new track does not get
\* identifier 0 again.
C1_Witness ==
    /\ frame_count = 3
    /\ Len(frame.detections) = 1
    /\ frame.calls = <<[op |-> "create", tid |-> 1, det |-> 1]>>
    /\ TrackIds(Tracker.tracks) = {1}
    /\ Tracker.next_id = 2

\* C2 (bounds): each live track's history has between 1 and max_history entries
HistoryBounded ==
    \A i \in 1..Len(Tracker.tracks) :
        /\ Len(Tracker.tracks[i].positions) >= 1
        /\ Len(Tracker.tracks[i].positions) <= max_history

\* C2 (order): a matched detection appended to a history of n entries gives
\* n + 1 entries, or, n being max_history, the old entries 2..n in their
\* order; the new bbox is last either way
FifoAppend(old, new, bbox) ==
    /\ new[Len(new)] = bbox
    /\ IF Len(old) < max_history
       THEN /\ Len(new) = Len(old) + 1
            /\ \A i \in 1..Len(old) : new[i] = old[i]
       ELSE /\ Len(new) = Len(old)
            /\ \A i \in 1..(Len(old) - 1) : new[i] = old[i + 1]

\* C2: in every reachable state each live track's history has between 1 and
\* max_history (10) entries; a matched detection appended to a full history
\* removes the oldest entry and keeps the others in order, the new bbox last.
C2_HistoryBoundedFifo ==
    /\ []HistoryBounded
    /\ [][FrameStep =>
            \A k \in 1..Len(frame'.calls) :
                frame'.calls[k].op = "update" =>
                    FifoAppend(TrackOf(Tracker.tracks, frame'.calls[k].tid).positions,
                               TrackOf(Tracker'.tracks, frame'.calls[k].tid).positions,
                               frame'.detections[frame'.calls[k].det].bbox)
         ]_vars

\* C2 witness: track 0 was created from the class-2 detection (bbox x = 100)
\* and its full history now holds only the other bbox (x = 70): the oldest
\* entries have been evicted.
C2_Witness ==
    /\ Len(Tracker.tracks) = 1
    /\ Tracker.tracks[1].id = 0
    /\ Tracker.tracks[1].class = 2
    /\ Len(Tracker.tracks[1].positions) = max_history
    /\ \A i \in 1..max_history :
          Tracker.tracks[1].positions[i] = Seen(zone, <<70, 300, 60, 200>>)

\* a - b >= c, a and b in ticks, c in tenths of a unit
ElapsedGe(a, b, c) == 10 * (a - b) >= c * TicksPerUnit

\* the tracks of new are tracks of old, unchanged and in the same order
\* (old's identifiers are distinct)
KeptUnchanged(old, new) ==
    /\ \A i \in 1..Len(new) : \E j \in 1..Len(old) : new[i] = old[j]
    /\ \A i, j \in 1..Len(new) : i < j => new[i].id < new[j].id

\* what C3 says of every empty-frame call, but for the tracks removed
EmptyFrameIsPassive ==
    /\ frame'.tracked_vehicles = <<>>
    /\ frame'.calls = <<>>
    /\ Tracker'.next_id = Tracker.next_id
    /\ KeptUnchanged(Tracker.tracks, Tracker'.tracks)

\* C3 as claimed: an empty-frame call returns an empty list, creates and
\* appends nothing, removes only tracks idle for more than 1.0, and keeps
\* every track idle for 1.0 or less.
C3_EmptyFrameAsClaimed ==
    [][(FrameStep /\ frame'.detections = <<>>) =>
          /\ EmptyFrameIsPassive
          /\ \A i \in 1..Len(Tracker.tracks) :
                Tracker.tracks[i].id \in TrackIds(Tracker'.tracks)
                    <=> ~ElapsedGt(frame'.current_time, Tracker.tracks[i].last_seen,
                                   max_disappeared)
      ]_vars

\* C3 amended: an empty-frame call returns an empty list, creates and
\* appends nothing, removes exactly the tracks idle for 1.0 or more, and
\* keeps, unchanged, every track idle for less than 1.0.
C3_EmptyFrame ==
    [][(FrameStep /\ frame'.detections = <<>>) =>
          /\ EmptyFrameIsPassive
          /\ \A i \in 1..Len(Tracker.tracks) :
                Tracker.tracks[i].id \in TrackIds(Tracker'.tracks)
                    <=> ~ElapsedGe(frame'.current_time, Tracker.tracks[i].last_seen,
                                   max_disappeared)
      ]_vars

\* C3 witness: the second frame is empty and comes at most 1.0 after the
\* first (which came one tick after the start at the earliest and created
\* track 0); the track is gone, so its idle time was exactly 1.0.
C3_Witness ==
    /\ frame_count = 2
    /\ frame.detections = <<>>
    /\ Tracker.next_id = 1
    /\ Tracker.tracks = <<>>
    /\ ~ElapsedGt(now, StartTime + 1, max_disappeared)

\* the detection is farther than 100 pixels from the last stored bbox
\* center of every track of tracks
FarFromAll(tracks, detection) ==
    \A i \in 1..Len(tracks) :
        Dist2Sq(Center2(tracks[i].positions[Len(tracks[i].positions)]),
                Center2(detection.bbox))
            > (2 * max_match_dist) * (2 * max_match_dist)

\* the calls of the last update made for detection i
CallsFor(calls, i) == SelectSeq(calls, LAMBDA c : c.det = i)

\* C4: a detection farther than 100 pixels from the last stored bbox center
\* of every live track is never appended to an existing track: the call
\* creates one new track for it, with a one-element history and a fresh
\* identifier, also when it is the only detection of the frame.
C4_FarDetectionStartsTrack ==
    [][FrameStep =>
          \A i \in 1..Len(frame'.detections) :
              FarFromAll(Tracker.tracks, frame'.detections[i]) =>
                  /\ Len(CallsFor(frame'.calls, i)) = 1
                  /\ CallsFor(frame'.calls, i)[1].op = "create"
                  /\ CallsFor(frame'.calls, i)[1].tid >= Tracker.next_id
                  /\ CallsFor(frame'.calls, i)[1].tid \notin TrackIds(Tracker.tracks)
                  /\ CallsFor(frame'.calls, i)[1].tid \in TrackIds(Tracker'.tracks)
                  /\ TrackOf(Tracker'.tracks, CallsFor(frame'.calls, i)[1].tid).positions
                        = <<frame'.detections[i].bbox>>
                  /\ Len(frame'.detections) = 1 =>
                        \A k \in 1..Len(Tracker.tracks) :
                            Tracker.tracks[k].id \in TrackIds(Tracker'.tracks) =>
                                TrackOf(Tracker'.tracks, Tracker.tracks[k].id)
                                    = Tracker.tracks[k]
      ]_vars

\* C4 witness: the frame's only detection is farther than 100 pixels from
\* the older live track 0 and has become track 1, with one history entry.
C4_Witness ==
    /\ Len(frame.detections) = 1
    /\ frame.calls = <<[op |-> "create", tid |-> 1, det |-> 1]>>
    /\ TrackIds(Tracker.tracks) = {0, 1}
    /\ FarFromAll(<<TrackOf(Tracker.tracks, 0)>>, frame.detections[1])
    /\ TrackOf(Tracker.tracks, 1).positions = <<frame.detections[1].bbox>>

\* C5: within one update call the association is one-to-one: every
\* detection is used by exactly one call (appended to one track or made a
\* new track, never both), and no track is appended to twice or both
\* created and appended to.
C5_OneToOne ==
    /\ \A i \in 1..Len(frame.detections) : Len(CallsFor(frame.calls, i)) = 1
    /\ \A k, m \in 1..Len(frame.calls) :
          frame.calls[k].tid = frame.calls[m].tid => k = m
    /\ \A k \in 1..Len(frame.calls) : frame.calls[k].det \in 1..Len(frame.detections)

\* C5 witness: two live tracks are both within 100 pixels of the frame's
\* only detection; track 0 got it and track 1 got nothing.
C5_Witness ==
    /\ Len(frame.detections) = 1
    /\ frame.calls = <<[op |-> "update", tid |-> 0, det |-> 1]>>
    /\ TrackIds(Tracker.tracks) = {0, 1}
    /\ ~FarFromAll(<<TrackOf(Tracker.tracks, 1)>>, frame.detections[1])
    /\ TrackOf(Tracker.tracks, 1).last_seen < frame.current_time
    /\ Len(TrackOf(Tracker.tracks, 1).positions) = 1

--------------------------------------------------------------------------
(* Claims about the alerts *)

\* an alert has been fired for the side before: last_warning_time starts at
\* 0, the clock is never 0, and firing stores the clock
AlertFiredBefore == last_warning_time[zone.side] # 0

\* C6: any two alerts fired for the side are at least the cooldown of 1.5
\* apart.  last_warning_time is the time of the side's last alert (it
\* changes exactly when an alert is fired, to that frame's timestamp), and a
\* frame that fires one when one was fired before comes at least 1.5 later.
C6_AlertsCooldownApart ==
    [][FrameStep =>
          /\ frame'.alert # "NONE" =>
                /\ last_warning_time'[zone.side] = frame'.current_time
                /\ AlertFiredBefore =>
                      ElapsedGe(frame'.current_time, last_warning_time[zone.side],
                                warning_cooldown)
          /\ frame'.alert = "NONE" => last_warning_time' = last_warning_time
          /\ frame'.current_time >= frame.current_time
      ]_vars

\* C6 witness: the third frame fires an alert, more than 1.5 after the
\* first; a track has been seen in all three frames, and the first frame
\* fired an alert (every detection of DetectionPool is classified warning
\* or critical in its first frame, and no alert had been fired).
C6_Witness ==
    /\ frame_count = 3
    /\ frame.alert = "CRITICAL"
    /\ last_warning_time[zone.side] = frame.current_time
    /\ \E i \in 1..Len(Tracker.tracks) :
          /\ Len(Tracker.tracks[i].positions) = 3
          /\ frame.current_time > StartTime
          /\ ElapsedGt(frame.current_time, StartTime, warning_cooldown)

\* the frame has critical_detected or warning_detected true
ThreatDetected(f) == f.critical_detected \/ f.warning_detected

\* C7 as claimed: a frame with critical_detected or warning_detected true,
\* at least 1.5 after the side's last alert, fires an alert and sets the
\* side's last-alert timestamp to the frame's timestamp.
C7_AlertFiresAsClaimed ==
    [][(/\ FrameStep
        /\ ThreatDetected(frame')
        /\ ElapsedGe(frame'.current_time, last_warning_time[zone.side], warning_cooldown))
          => /\ frame'.alert # "NONE"
             /\ last_warning_time'[zone.side] = frame'.current_time
      ]_vars

\* C7 amended: a frame with critical_detected or warning_detected true, more
\* than 1.5 after the side's last alert, fires an alert and sets the side's
\* last-alert timestamp to the frame's timestamp; exactly 1.5 after it, or
\* earlier, no alert is fired.
C7_AlertFires ==
    [][(FrameStep /\ ThreatDetected(frame')) =>
          IF ElapsedGt(frame'.current_time, last_warning_time[zone.side], warning_cooldown)
          THEN /\ frame'.alert # "NONE"
               /\ last_warning_time'[zone.side] = frame'.current_time
          ELSE /\ frame'.alert = "NONE"
               /\ last_warning_time' = last_warning_time
      ]_vars

\* C7 witness: a frame with only a warning fires an alert, more than 1.5
\* after the session's start and after an earlier frame with a detection
\* (which fired the side's first alert).
C7_Witness ==
    /\ frame.warning_detected /\ ~frame.critical_detected
    /\ frame.alert = "WARNING"
    /\ last_warning_time[zone.side] = frame.current_time
    /\ \E i \in 1..Len(Tracker.tracks) : Len(Tracker.tracks[i].positions) >= 2
    /\ ElapsedGt(frame.current_time, StartTime, warning_cooldown)

--------------------------------------------------------------------------
(* Claims about the classification of the frame's tracks *)

\* the tracked vehicle the last update returned for track tid
VehicleOf(f, tid) ==
    f.tracked_vehicles[CHOOSE i \in 1..Len(f.tracked_vehicles) :
                           f.tracked_vehicles[i].id = tid]

\* the level process_side_view got for track tid: that of its entry in
\* threat_vehicles, "none" when it has none
LevelOf(f, tid) ==
    IF \E i \in 1..Len(f.threat_vehicles) : f.threat_vehicles[i].vehicle.id = tid
    THEN f.threat_vehicles[CHOOSE i \in 1..Len(f.threat_vehicles) :
                               f.threat_vehicles[i].vehicle.id = tid].threat
    ELSE "none"

\* the spec's scenario at frame 1: side left, frame 800x600, the first
\* detection's bbox [100, 300, 60, 200]
ScenarioFrame1 ==
    /\ zone.side = "left" /\ zone.width = 800 /\ zone.height = 600
    /\ frame_count = 1
    /\ Len(frame.detections) = 1
    /\ frame.detections[1].bbox = <<100, 300, 60, 200>>

\* C10 as claimed: in the frame that creates a track its classification is
\* neither warning nor critical.
C10_NewTrackNotEligibleAsClaimed ==
    \A k \in 1..Len(frame.calls) :
        frame.calls[k].op = "create" =>
            LevelOf(frame, frame.calls[k].tid) \notin {"warning", "critical"}

\* C10 amended: in the frame that creates it a track is reported with
\* history length 1 and velocity (0,0) and is already eligible: it is
\* classified warning or critical whenever it passes the self-exclusion,
\* region-of-interest and opposite-lane filters and its bbox is higher than
\* 0.30 of the frame.  In the spec's scenario the track is critical, for
\* parallel motion in the blind spot, at frame 1.
C10_NewTrackEligible ==
    /\ \A k \in 1..Len(frame.calls) :
          frame.calls[k].op = "create" =>
              /\ VehicleOf(frame, frame.calls[k].tid).history_length = 1
              /\ VehicleOf(frame, frame.calls[k].tid).velocity = <<0, 0>>
              /\ VehicleOf(frame, frame.calls[k].tid).bbox
                    = frame.detections[frame.calls[k].det].bbox
              /\ (/\ PassesFilters(zone, VehicleOf(frame, frame.calls[k].tid))
                  /\ 10 * frame.detections[frame.calls[k].det].bbox[4] > 3 * zone.height)
                    => LevelOf(frame, frame.calls[k].tid) \in {"warning", "critical"}
    /\ ScenarioFrame1 =>
          /\ Len(frame.threat_vehicles) = 1
          /\ frame.threat_vehicles[1].vehicle.id = 0
          /\ frame.threat_vehicles[1].threat = "critical"
          /\ frame.threat_vehicles[1].reason = "Parallel in blind spot"
          /\ frame.critical_detected

\* C10 witness: the spec's scenario at frame 1, the new track critical.
C10_Witness ==
    /\ ScenarioFrame1
    /\ frame.calls = <<[op |-> "create", tid |-> 0, det |-> 1]>>
    /\ LevelOf(frame, 0) = "critical"

--------------------------------------------------------------------------
(* The spec's two-frame scenario, and the reported velocity *)

\* the spec's scenario at frame 2: this step is the second update, with the
\* one detection [70, 300, 60, 200], after ScenarioFrame1
ScenarioFrame2Step ==
    /\ ScenarioFrame1
    /\ FrameStep
    /\ Len(frame'.detections) = 1
    /\ frame'.detections[1].bbox = <<70, 300, 60, 200>>

\* C11: side left, frame 800x600, empty tracker: after update with one
\* detection [100,300,60,200] and then update with one detection
\* [70,300,60,200], the second detection is matched to the track the first
\* created (identifier 0, history length 2), the reported velocity is
\* (-30,0) (doubled: (-60,0)), the track is classified critical with reason
\* "Fast approach in blind spot", and critical_detected is true.
C11_ScenarioFrame2 ==
    [][ScenarioFrame2Step =>
          /\ frame'.calls = <<[op |-> "update", tid |-> 0, det |-> 1]>>
          /\ TrackIds(Tracker'.tracks) = {0}
          /\ TrackOf(Tracker'.tracks, 0).positions
                = <<<<100, 300, 60, 200>>, <<70, 300, 60, 200>>>>
          /\ Len(frame'.tracked_vehicles) = 1
          /\ frame'.tracked_vehicles[1].id = 0
          /\ frame'.tracked_vehicles[1].history_length = 2
          /\ frame'.tracked_vehicles[1].velocity = <<-60, 0>>
          /\ Len(frame'.threat_vehicles) = 1
          /\ frame'.threat_vehicles[1].vehicle.id = 0
          /\ frame'.threat_vehicles[1].threat = "critical"
          /\ frame'.threat_vehicles[1].reason = "Fast approach in blind spot"
          /\ frame'.critical_detected
      ]_vars

\* C11 witness: the scenario after its second frame: one track, created from
\* [100,300,60,200] and matched to [70,300,60,200], critical.
C11_Witness ==
    /\ zone.side = "left" /\ zone.width = 800 /\ zone.height = 600
    /\ frame_count = 2
    /\ Len(frame.detections) = 1
    /\ frame.detections[1].bbox = <<70, 300, 60, 200>>
    /\ Len(Tracker.tracks) = 1
    /\ Tracker.tracks[1].positions = <<<<100, 300, 60, 200>>, <<70, 300, 60, 200>>>>
    /\ frame.critical_detected

\* the displacement of the bbox centers from bbox a to bbox b, doubled
Displacement2(a, b) ==
    <<Center2(b)[1] - Center2(a)[1], Center2(b)[2] - Center2(a)[2]>>

\* C12: the velocity reported for a track is the displacement between the
\* bbox centers of its two most recent history entries (newest minus
\* previous), and exactly (0,0) when the history has fewer than two
\* entries; the reported bbox is the newest entry and history_length the
\* number of entries.
C12_VelocityIsLastDisplacement ==
    \A i \in 1..Len(frame.tracked_vehicles) :
        /\ frame.tracked_vehicles[i].id \in TrackIds(Tracker.tracks)
        /\ \E t \in {TrackOf(Tracker.tracks, frame.tracked_vehicles[i].id)} :
              /\ frame.tracked_vehicles[i].history_length = Len(t.positions)
              /\ frame.tracked_vehicles[i].bbox = t.positions[Len(t.positions)]
              /\ frame.tracked_vehicles[i].velocity =
                    IF Len(t.positions) < 2 THEN <<0, 0>>
                    ELSE Displacement2(t.positions[Len(t.positions) - 1],
                                       t.positions[Len(t.positions)])

\* C12 witness: a track with three history entries whose last displacement
\* (30 pixels to the right) differs from the one before (30 to the left),
\* reported with velocity (30,0), next to a track with one entry reported
\* with velocity (0,0).
C12_Witness ==
    /\ \E i \in 1..Len(frame.tracked_vehicles) :
          /\ frame.tracked_vehicles[i].history_length = 3
          /\ frame.tracked_vehicles[i].velocity = <<60, 0>>
          /\ Displacement2(frame.tracked_vehicles[i].positions[1],
                           frame.tracked_vehicles[i].positions[2]) = <<-60, 0>>
    /\ \E i \in 1..Len(frame.tracked_vehicles) :
          /\ frame.tracked_vehicles[i].history_length = 1
          /\ frame.tracked_vehicles[i].velocity = <<0, 0>>

--------------------------------------------------------------------------
(* Claims about the alert's level *)

\* C13: in a frame where at least one track is classified critical and at
\* least one warning, and the side's cooldown has elapsed (the code's test:
\* more than 1.5 since the side's last alert), the one alert fired is
\* CRITICAL; no frame fires more than one alert for a side: frame.alert is
\* the level of the frame's only trigger_warning call, or NONE, and an alert
\* is CRITICAL exactly when a track of the frame is critical.
C13_CriticalHasPriority ==
    /\ [](/\ frame.alert \in {"NONE", "WARNING", "CRITICAL"}
          /\ frame.alert = "CRITICAL" => frame.critical_detected
          /\ frame.alert = "WARNING" =>
                frame.warning_detected /\ ~frame.critical_detected)
    /\ [][(/\ FrameStep
           /\ \E i \in 1..Len(frame'.threat_vehicles) :
                 frame'.threat_vehicles[i].threat = "critical"
           /\ \E i \in 1..Len(frame'.threat_vehicles) :
                 frame'.threat_vehicles[i].threat = "warning"
           /\ ElapsedGt(frame'.current_time, last_warning_time[zone.side],
                        warning_cooldown))
            => /\ frame'.alert = "CRITICAL"
               /\ last_warning_time'[zone.side] = frame'.current_time
         ]_vars

\* C13 witness: the third frame holds a critical and a warning track and
\* fires CRITICAL; a track has been seen in all three frames, so the first
\* frame fired the side's first alert and the cooldown has elapsed since.
C13_Witness ==
    /\ frame_count = 3
    /\ \E i \in 1..Len(frame.threat_vehicles) : frame.threat_vehicles[i].threat = "critical"
    /\ \E i \in 1..Len(frame.threat_vehicles) : frame.threat_vehicles[i].threat = "warning"
    /\ \E i \in 1..Len(Tracker.tracks) : Len(Tracker.tracks[i].positions) = 3
    /\ frame.alert = "CRITICAL"
    /\ last_warning_time[zone.side] = frame.current_time

--------------------------------------------------------------------------
(* Detector failures *)

\* C14: when the detector fails on a frame (raises or returns malformed
\* output), the frame is processed as if it had zero detections: the failure
\* is not propagated out of the per-frame processing (the session is still
\* running), the frame is counted, and the tracker is updated with an empty
\* detection list.
C14_DetectorFailureIsEmptyFrame ==
    [][DetectorRaises =>
          /\ status' = "running"
          /\ frame_count' = frame_count + 1
          /\ frame'.detections = <<>>
          /\ frame'.calls = <<>>
          /\ Tracker'.tracks = KeepFresh(Tracker.tracks, now')
      ]_vars

--------------------------------------------------------------------------
(* Claims about unmatched tracks and the order of matching *)

\* the tracks the last update appended a detection to
UpdatedIds(calls) == {calls[k].tid : k \in {j \in 1..Len(calls) : calls[j].op = "update"}}

\* C15: in an update call with a non-empty detection list, a live track that
\* no detection matched is deleted exactly when now - last_seen > 1.0; a
\* track with now - last_seen <= 1.0 stays live with its history,
\* last_seen, class and confidence unchanged.
C15_UnmatchedTrackTimeout ==
    [][(FrameStep /\ frame'.detections # <<>>) =>
          \A i \in 1..Len(Tracker.tracks) :
              Tracker.tracks[i].id \notin UpdatedIds(frame'.calls) =>
                  IF ElapsedGt(frame'.current_time, Tracker.tracks[i].last_seen,
                               max_disappeared)
                  THEN Tracker.tracks[i].id \notin TrackIds(Tracker'.tracks)
                  ELSE /\ Tracker.tracks[i].id \in TrackIds(Tracker'.tracks)
                       /\ TrackOf(Tracker'.tracks, Tracker.tracks[i].id)
                             = Tracker.tracks[i]
      ]_vars

\* C15 witness: after an update with a detection, a track that got none is
\* still live although it has been idle for the whole timeout (exactly 1.0).
C15_Witness ==
    /\ frame.detections # <<>>
    /\ \E i \in 1..Len(Tracker.tracks) :
          /\ Tracker.tracks[i].id \notin UpdatedIds(frame.calls)
          /\ Tracker.tracks[i].last_seen < frame.current_time
          /\ ElapsedGe(frame.current_time, Tracker.tracks[i].last_seen, max_disappeared)

\* the detections the last update gave to tracks created before track tid
TakenBefore(calls, tid) ==
    {calls[k].det : k \in {j \in 1..Len(calls) :
                              calls[j].op = "update" /\ calls[j].tid < tid}}

\* the squared distance, doubled centers, from the track's last stored bbox
\* center to the detection's
TrackDist2Sq(track, detection) ==
    Dist2Sq(Center2(track.positions[Len(track.positions)]), Center2(detection.bbox))

\* the detections the track can take at its turn: not taken by a track
\* created before it, and less than 100 pixels away
NearAtTurn(track, calls, detections) ==
    {i \in 1..Len(detections) :
        /\ i \notin TakenBefore(calls, track.id)
        /\ TrackDist2Sq(track, detections[i])
              < (2 * max_match_dist) * (2 * max_match_dist)}

\* C16: in an update call with a non-empty detection list, live tracks are
\* considered in creation order (ascending identifier): each takes, among
\* the detections no earlier track has taken, the one with the smallest
\* center distance below 100 pixels (none when there is none), so a
\* detection taken by an earlier track is unavailable to every later track,
\* also to one that is closer or equally distant.
C16_GreedyInCreationOrder ==
    /\ [](\A i, j \in 1..Len(Tracker.tracks) :
             i < j => Tracker.tracks[i].id < Tracker.tracks[j].id)
    /\ [][(FrameStep /\ frame'.detections # <<>>) =>
            /\ \A k, m \in 1..Len(frame'.calls) :
                  (k < m /\ frame'.calls[k].op = "update" /\ frame'.calls[m].op = "update")
                      => frame'.calls[k].tid < frame'.calls[m].tid
            /\ \A i \in 1..Len(Tracker.tracks) :
                  \E near \in {NearAtTurn(Tracker.tracks[i], frame'.calls, frame'.detections)} :
                      IF near = {}
                      THEN Tracker.tracks[i].id \notin UpdatedIds(frame'.calls)
                      ELSE \E k \in 1..Len(frame'.calls) :
                              /\ frame'.calls[k].op = "update"
                              /\ frame'.calls[k].tid = Tracker.tracks[i].id
                              /\ frame'.calls[k].det \in near
                              /\ \A d \in near :
                                    TrackDist2Sq(Tracker.tracks[i],
                                                 frame'.detections[frame'.calls[k].det])
                                        <= TrackDist2Sq(Tracker.tracks[i], frame'.detections[d])
         ]_vars

\* C16 witness: the frame's only detection was equally distant from two
\* live tracks (the place the earlier track was at before this call, and the
\* place the later track is at); the earlier-created track took it and the
\* later one got nothing.
C16_Witness ==
    /\ Len(frame.detections) = 1
    /\ \E i, j \in 1..Len(Tracker.tracks) :
          /\ Tracker.tracks[i].id < Tracker.tracks[j].id
          /\ frame.calls = <<[op |-> "update", tid |-> Tracker.tracks[i].id, det |-> 1]>>
          /\ Len(Tracker.tracks[i].positions) >= 2
          /\ Tracker.tracks[j].last_seen < frame.current_time
          /\ Dist2Sq(Center2(Tracker.tracks[i].positions[Len(Tracker.tracks[i].positions) - 1]),
                     Center2(frame.detections[1].bbox))
                = TrackDist2Sq(Tracker.tracks[j], frame.detections[1])

\* C17: when a detection is matched to an existing track, the track's
\* newest history entry becomes the detection's bbox, its last_seen becomes
\* the call's timestamp, and both its class identifier and its confidence
\* become those of the matched detection.
C17_MatchRefreshesTrack ==
    [][FrameStep =>
          \A k \in 1..Len(frame'.calls) :
              frame'.calls[k].op = "update" =>
                  \E t \in {TrackOf(Tracker'.tracks, frame'.calls[k].tid)} :
                  \E d \in {frame'.detections[frame'.calls[k].det]} :
                      /\ t.positions[Len(t.positions)] = d.bbox
                      /\ t.last_seen = frame'.current_time
                      /\ t.confidence = d.confidence
                      /\ t.class = d.class_id
      ]_vars

--------------------------------------------------------------------------
(* Claims about the classifier's motion analysis and combination *)

\* an _analyze_motion call has been made
MotionProbed == probe.motion # <<>>

\* the velocity (doubled) is approaching or near-parallel for the side: not
\* beyond the deadband of 3 in the moving-away direction
ApproachingOrParallel(z, velocity) ==
    IF z.side = "left" THEN velocity[1] <= 6 ELSE velocity[1] >= -6

\* the bbox's horizontal center x + w/2 lies in the half-open interval
\* [band[1], band[2])
CenterInBand(bbox, band) ==
    2 * band[1] <= Center2(bbox)[1] /\ Center2(bbox)[1] < 2 * band[2]

\* C18: in the motion analysis, for an approaching or near-parallel vehicle,
\* the motion threat is critical exactly when the bbox's horizontal center
\* lies in the side's half-open critical interval (left [0, 0.35W), right
\* [0.65W, W)) and warning exactly when it lies in the half-open warning
\* interval [0.35W, 0.65W); so on the right side a center equal to 0.65W is
\* critical and a center equal to 0.35W is warning.
C18_MotionBandsHalfOpen ==
    (MotionProbed /\ ApproachingOrParallel(zone, probe.vehicle.velocity))
        => /\ probe.motion[1] = "critical"
                <=> CenterInBand(probe.vehicle.bbox, zone.base_critical)
           /\ probe.motion[1] = "warning"
                <=> CenterInBand(probe.vehicle.bbox, zone.base_warning)

\* safe < warning < critical
Severity(level) ==
    CASE level = "safe" -> 0 [] level = "warning" -> 1 [] level = "critical" -> 2

\* the more severe of two levels
MoreSevere(a, b) == IF Severity(a) >= Severity(b) THEN a ELSE b

\* the distance threat of a bbox higher than 0.30 of the frame: critical
\* above 0.45, else warning
CloseDistanceThreat(z, bbox) ==
    IF 100 * bbox[4] > 45 * z.height THEN "critical" ELSE "warning"

\* C19: for every tracked vehicle that passes the self-exclusion,
\* region-of-interest and opposite-lane filters and whose distance threat is
\* warning or critical (bbox height above 0.30 of the frame height), the
\* level classify_threat returns is the more severe of the distance threat
\* and the motion threat; so it is never safe, also when the motion threat
\* is safe (moving away).
C19_MoreSevereOfDistanceAndMotion ==
    (/\ Probed /\ MotionProbed
     /\ PassesFilters(zone, probe.vehicle)
     /\ 10 * probe.vehicle.bbox[4] > 3 * zone.height)
        => /\ probe.motion[1] \in {"safe", "warning", "critical"}
           /\ probe.level = MoreSevere(CloseDistanceThreat(zone, probe.vehicle.bbox),
                                       probe.motion[1])
           /\ probe.level # "safe"

\* C19 witness: a vehicle moving away (motion threat safe) at warning
\* distance, inside the critical band, is classified warning.
C19_Witness ==
    /\ Probed /\ MotionProbed
    /\ PassesFilters(zone, probe.vehicle)
    /\ 10 * probe.vehicle.bbox[4] > 3 * zone.height
    /\ 100 * probe.vehicle.bbox[4] <= 45 * zone.height
    /\ CenterInBand(probe.vehicle.bbox, zone.base_critical)
    /\ probe.motion = <<"safe", "Moving away">>
    /\ probe.level = "warning"
    /\ probe.reason = "Moderately close"

--------------------------------------------------------------------------
(* Claims about what update returns *)

\* the identifiers of the tracked vehicles the frame's update returned
ReturnedIds(f) == {f.tracked_vehicles[i].id : i \in 1..Len(f.tracked_vehicles)}

\* C20: an update call with a non-empty detection list returns exactly one
\* tracked vehicle per track that is live after the call, including tracks
\* that no detection matched in this call and that were kept; such a track
\* is reported with the bbox and velocity it had before the call (those of
\* the last frame in which it was matched or created, and of the previous
\* frame's report when that reported it), it is classified as before, and
\* its level sets critical_detected or warning_detected.
C20_UnmatchedTracksAreReported ==
    /\ [](frame.detections # <<>> =>
             /\ Len(frame.tracked_vehicles) = Len(Tracker.tracks)
             /\ ReturnedIds(frame) = TrackIds(Tracker.tracks)
             /\ \A i, j \in 1..Len(frame.tracked_vehicles) :
                   frame.tracked_vehicles[i].id = frame.tracked_vehicles[j].id => i = j)
    /\ [][(FrameStep /\ frame'.detections # <<>>) =>
            \A i \in 1..Len(Tracker.tracks) :
                (/\ Tracker.tracks[i].id \notin UpdatedIds(frame'.calls)
                 /\ Tracker.tracks[i].id \in TrackIds(Tracker'.tracks)) =>
                    \E t \in {Tracker.tracks[i]} :
                    \E v \in {VehicleOf(frame', t.id)} :
                        /\ v.bbox = t.positions[Len(t.positions)]
                        /\ v.history_length = Len(t.positions)
                        /\ v.velocity =
                              IF Len(t.positions) < 2 THEN <<0, 0>>
                              ELSE Displacement2(t.positions[Len(t.positions) - 1],
                                                 t.positions[Len(t.positions)])
                        /\ t.id \in ReturnedIds(frame) =>
                              /\ v.bbox = VehicleOf(frame, t.id).bbox
                              /\ v.velocity = VehicleOf(frame, t.id).velocity
                              /\ LevelOf(frame', t.id) = LevelOf(frame, t.id)
                        /\ LevelOf(frame', t.id) = "critical" => frame'.critical_detected
                        /\ LevelOf(frame', t.id) = "warning" => frame'.warning_detected
         ]_vars

\* C20 witness: the frame's detections went to other tracks; a track last
\* seen in an earlier frame is still live, is the frame's only critical
\* track, and critical_detected is true.
C20_Witness ==
    /\ frame.detections # <<>>
    /\ frame.critical_detected
    /\ \E i \in 1..Len(Tracker.tracks) :
          /\ \A k \in 1..Len(frame.calls) : frame.calls[k].tid # Tracker.tracks[i].id
          /\ Tracker.tracks[i].last_seen < frame.current_time
          /\ LevelOf(frame, Tracker.tracks[i].id) = "critical"
          /\ \A k \in 1..Len(frame.threat_vehicles) :
                frame.threat_vehicles[k].threat = "critical" =>
                    frame.threat_vehicles[k].vehicle.id = Tracker.tracks[i].id

==========================================================================
